---- MODULE Spec2Model ----
(***************************************************************************)
(* Model of IntMap.py: load_images_to_map (the image-to-popup encoder) and *)
(* build_map (marker/popup assembly and the final save).                   *)
(*                                                                         *)
(* Strings that the program transforms (path names, suffixes, format      *)
(* names) are sequences of one-character strings, so that str.lower() and  *)
(* Path.suffix are computed and not assumed.  A dict is a sequence of      *)
(* [name, value] entries in insertion order.                               *)
(***************************************************************************)
EXTENDS Integers, Sequences, FiniteSets, TLC

VARIABLES
    disk,                \* the file system: path -> file
    marker_image_paths,  \* build_map's dict name -> list of paths
    pc,                  \* position of the run
    ni,                  \* load_images_to_map: index of the current item
    pi,                  \* load_images_to_map: index of the current path
    img_srcs,            \* load_images_to_map: list being built for the name
    image_map,           \* load_images_to_map: result dict / build_map local
    opened,              \* paths handed to Image.open so far, in order
    log,                 \* lines printed on stdout
    mi,                  \* build_map: index of the current poi_markers row
    markers,             \* children added to the folium map m
    saveAttempts,        \* number of m.save calls made
    saved                \* content of the output file, <<>> while unwritten

vars == <<disk, marker_image_paths, pc, ni, pi, img_srcs, image_map, opened,
          log, mi, markers, saveAttempts, saved>>

----------------------------------------------------------------------------
(* Bounds *)

MaxImages == 3      \* total number of image paths in marker_image_paths
MaxDim == 1300      \* largest image width/height of the size sweep
DimStep == 41       \* the size sweep takes every DimStep-th size

----------------------------------------------------------------------------
(* Strings as character sequences *)

UpperChars == <<"A","B","C","D","E","F","G","H","I","J","K","L","M",
                "N","O","P","Q","R","S","T","U","V","W","X","Y","Z">>
LowerChars == <<"a","b","c","d","e","f","g","h","i","j","k","l","m",
                "n","o","p","q","r","s","t","u","v","w","x","y","z">>

\* str.lower() on one character
LowerChar(c) ==
    IF \E i \in 1..Len(UpperChars) : UpperChars[i] = c
    THEN LowerChars[CHOOSE i \in 1..Len(UpperChars) : UpperChars[i] = c]
    ELSE c

\* str.lower()
Lower(s) == [i \in 1..Len(s) |-> LowerChar(s[i])]

\* str.rfind(c), 1-based; 0 when c does not occur
RFind(s, c) ==
    IF \E i \in 1..Len(s) : s[i] = c
    THEN CHOOSE i \in 1..Len(s) : s[i] = c /\ \A j \in (i+1)..Len(s) : s[j] # c
    ELSE 0

\* Path.suffix of a path whose final component is p
Suffix(p) ==
    LET i == RFind(p, ".")
    IN  IF 1 < i /\ i < Len(p) THEN SubSeq(p, i, Len(p)) ELSE <<>>

JPEG == <<"J","P","E","G">>
PNG == <<"P","N","G">>
JpegSuffixes == { <<".","j","p","g">>, <<".","j","p","e","g">> }

\* variant: the suffix is compared without .lower()
FormatTypeCaseSensitive(img_path) ==
    IF Suffix(img_path) \in JpegSuffixes THEN JPEG ELSE PNG

\* format_type = 'JPEG' if img_path.suffix.lower() in ['.jpg', '.jpeg'] else 'PNG'
FormatType(img_path) ==
    IF Lower(Suffix(img_path)) \in JpegSuffixes THEN JPEG ELSE PNG

Placeholder == [url |-> "https://via.placeholder.com/180x120.jpg"]

----------------------------------------------------------------------------
(* The imaging library as load_images_to_map uses it *)

THUMB == 400        \* img.thumbnail((400, 400))

Abs(n) == IF n < 0 THEN 0 - n ELSE n
Max(a, b) == IF a >= b THEN a ELSE b
CeilDiv(a, b) == (a \div b) + (IF a % b = 0 THEN 0 ELSE 1)

\* thumbnail's round_aspect for the width: of floor and ceil of y*w/h the
\* one whose aspect n/y is nearer to w/h (floor on a tie), at least 1
RoundWidth(w, h, y) ==
    LET f == (y * w) \div h
        c == CeilDiv(y * w, h)
    IN  Max(IF Abs(w * y - f * h) <= Abs(w * y - c * h) THEN f ELSE c, 1)

\* thumbnail's round_aspect for the height: of floor and ceil of x*h/w the
\* one whose aspect x/n is nearer to w/h (key 0 for n = 0), at least 1
RoundHeight(w, h, x) ==
    LET f == (x * h) \div w
        c == CeilDiv(x * h, w)
    IN  Max(IF f = 0 \/ Abs(w * f - x * h) * c <= Abs(w * c - x * h) * f
            THEN f ELSE c, 1)

\* size of an image of size (w, h) after img.thumbnail((x, y))
ThumbnailSize(w, h, x, y) ==
    IF x >= w /\ y >= h THEN <<w, h>>
    ELSE IF x * h >= w * y THEN <<RoundWidth(w, h, y), y>>
    ELSE <<x, RoundHeight(w, h, x)>>

\* modes the JPEG writer refuses ("cannot write mode ... as JPEG")
NoJpegModes == {"RGBA", "P", "LA"}

\* base64.b64encode(buffer.getvalue()).decode('utf-8')
B64(buffer) == [b64 |-> buffer]

\* f"data:image/{format_type.lower()};base64,{encoded}"
DataURI(format_type, encoded) ==
    [scheme |-> "data:image/", mime |-> Lower(format_type),
     sep |-> ";base64,", payload |-> encoded]

\* variant: img.thumbnail((800, 800))
ThumbBoxDoubled == <<2 * THUMB, 2 * THUMB>>

\* the size handed to img.thumbnail
ThumbBox == <<THUMB, THUMB>>

\* The body of the try block for an existing file: the data URI appended,
\* or the exception raised by open, thumbnail or save.
TryEncode(img_path, file) ==
    IF ~file.decodable
    THEN [ok |-> FALSE, err |-> "cannot identify image file"]
    ELSE
      LET size == ThumbnailSize(file.w, file.h, ThumbBox[1], ThumbBox[2])
          format_type == FormatType(img_path)
      IN  IF file.truncated
          THEN [ok |-> FALSE, err |-> "image file is truncated"]
          ELSE IF format_type = JPEG /\ file.mode \in NoJpegModes
          THEN [ok |-> FALSE, err |-> "cannot write mode as JPEG"]
          ELSE [ok |-> TRUE,
                src |-> DataURI(format_type,
                          B64([format |-> format_type, mode |-> file.mode,
                               w |-> size[1], h |-> size[2],
                               pixels |-> img_path]))]

----------------------------------------------------------------------------
(* Inputs: the files on disk and the dicts build_map is run with *)

File(exists, decodable, truncated, format, mode, w, h) ==
    [exists |-> exists, decodable |-> decodable, truncated |-> truncated,
     format |-> format, mode |-> mode, w |-> w, h |-> h]

NoFile == File(FALSE, FALSE, FALSE, "", "", 0, 0)

pA == <<"a",".","j","p","g">>
pB == <<"b",".","J","P","E","G">>
pC == <<"c",".","p","n","g">>
pD == <<"d",".","j","p","e","g">>
pE == <<"e",".","J","p","g">>
pF == <<"f">>
pG == <<"g",".","g","i","f">>

Paths == {pA, pB, pC, pD, pE, pF, pG}

\* The files the paths denote: two sound JPEGs, a JPEG named .png, a missing
\* file, an RGBA PNG named .Jpg (the JPEG writer refuses it), a file that is
\* no image, and a truncated GIF.
Disk ==
    (pA :> File(TRUE, TRUE, FALSE, "JPEG", "RGB", 800, 600)) @@
    (pB :> File(TRUE, TRUE, FALSE, "JPEG", "L", 300, 200)) @@
    (pC :> File(TRUE, TRUE, FALSE, "JPEG", "RGB", 400, 1201)) @@
    (pD :> NoFile) @@
    (pE :> File(TRUE, TRUE, FALSE, "PNG", "RGBA", 640, 480)) @@
    (pF :> File(TRUE, FALSE, FALSE, "", "", 0, 0)) @@
    (pG :> File(TRUE, TRUE, TRUE, "GIF", "P", 1000, 3))

\* rows of poi_markers: name and description (location and colour do not
\* enter any popup)
poi_markers ==
    << [name |-> "A", description |-> "descA"],
       [name |-> "B", description |-> "descB"],
       [name |-> "C", description |-> "descC"] >>

\* the names that may be keys of marker_image_paths
MapNames == {"A", "B"}

SeqsUpTo(S, n) == UNION { [1..k -> S] : k \in 0..n }

\* key orders of a dict over MapNames: sequences without repetition
KeyOrders ==
    { ks \in SeqsUpTo(MapNames, Cardinality(MapNames)) :
        \A i, j \in 1..Len(ks) : i # j => ks[i] # ks[j] }

RECURSIVE PathLists(_, _)
\* n path lists holding at most budget paths together
PathLists(n, budget) ==
    IF n = 0 THEN { <<>> }
    ELSE UNION { { <<l>> \o rest : rest \in PathLists(n - 1, budget - Len(l)) } :
                 l \in SeqsUpTo(Paths, budget) }

\* the dicts name -> list of paths
InputMappings ==
    UNION { { [i \in 1..Len(ks) |-> [name |-> ks[i], paths |-> ls[i]]] :
              ls \in PathLists(Len(ks), MaxImages) } : ks \in KeyOrders }

----------------------------------------------------------------------------
(* dict operations *)

Keys(d) == { d[i].name : i \in 1..Len(d) }
Has(d, name) == \E i \in 1..Len(d) : d[i].name = name
Entry(d, name) == d[CHOOSE i \in 1..Len(d) : d[i].name = name]

\* variant: a name with an empty list is left out of the dict
DictSetNonEmpty(d, name, value) ==
    IF value = <<>> THEN d
    ELSE IF Has(d, name)
    THEN [i \in 1..Len(d) |->
            IF d[i].name = name THEN [name |-> name, srcs |-> value] ELSE d[i]]
    ELSE Append(d, [name |-> name, srcs |-> value])

\* image_map[name] = img_srcs
DictSet(d, name, value) ==
    IF Has(d, name)
    THEN [i \in 1..Len(d) |->
            IF d[i].name = name THEN [name |-> name, srcs |-> value] ELSE d[i]]
    ELSE Append(d, [name |-> name, srcs |-> value])

----------------------------------------------------------------------------
(* build_map, up to the call of load_images_to_map *)

\* folium.Marker(location=center, popup=folium.Popup("Leeghwaterplas", ...))
CenterMarker == [popup |-> [text |-> "Leeghwaterplas", max_width |-> 250]]

Blank ==
    /\ pc = "start"
    /\ ni = 1
    /\ pi = 1
    /\ img_srcs = <<>>
    /\ image_map = <<>>
    /\ opened = <<>>
    /\ log = <<>>
    /\ mi = 1
    /\ markers = <<>>
    /\ saveAttempts = 0
    /\ saved = <<>>

Init ==
    /\ disk = Disk
    /\ marker_image_paths \in InputMappings
    /\ Blank

\* the map, its tile layers and the centre marker; then
\* image_map = load_images_to_map(marker_image_paths) is entered
BuildStart ==
    /\ pc = "start"
    /\ markers' = Append(markers, CenterMarker)
    /\ image_map' = <<>>
    /\ img_srcs' = <<>>
    /\ ni' = 1
    /\ pi' = 1
    /\ pc' = "load"
    /\ UNCHANGED <<disk, marker_image_paths, opened, log, mi, saveAttempts, saved>>

----------------------------------------------------------------------------
(* load_images_to_map: one action per pass of the inner loop *)

InLoop ==
    /\ pc = "load"
    /\ ni <= Len(marker_image_paths)
    /\ pi <= Len(marker_image_paths[ni].paths)

\* the inner loop is exhausted
AtNameEnd ==
    /\ pc = "load"
    /\ ni <= Len(marker_image_paths)
    /\ pi > Len(marker_image_paths[ni].paths)

\* the outer loop is exhausted
AtLoadEnd ==
    /\ pc = "load"
    /\ ni > Len(marker_image_paths)

CurPath == marker_image_paths[ni].paths[pi]

\* variant: the existence test is left out, every path goes to the try block
ExistsUnchecked(img_path) == TRUE

\* img_path.exists()
Exists(img_path) == disk[img_path].exists

\* variant: a missing file is passed over without an entry
FileMissingSkipped ==
    /\ InLoop
    /\ ~disk[CurPath].exists
    /\ pi' = pi + 1
    /\ UNCHANGED <<disk, marker_image_paths, pc, ni, img_srcs, image_map,
                   opened, log, mi, markers, saveAttempts, saved>>

\* variant: a missing file is reported like a failing one
FileMissingReported ==
    /\ InLoop
    /\ ~disk[CurPath].exists
    /\ log' = Append(log, [kind |-> "failed", path |-> CurPath,
                           error |-> "cannot identify image file"])
    /\ img_srcs' = Append(img_srcs, Placeholder)
    /\ pi' = pi + 1
    /\ UNCHANGED <<disk, marker_image_paths, pc, ni, image_map, opened,
                   mi, markers, saveAttempts, saved>>

\* else branch: the placeholder, nothing opened
FileMissing ==
    /\ InLoop
    /\ ~Exists(CurPath)
    /\ img_srcs' = Append(img_srcs, Placeholder)
    /\ pi' = pi + 1
    /\ UNCHANGED <<disk, marker_image_paths, pc, ni, image_map, opened, log,
                   mi, markers, saveAttempts, saved>>

\* variant: img_srcs.insert(0, ...) in place of img_srcs.append(...)
FileEncodedPrepended ==
    /\ InLoop
    /\ disk[CurPath].exists
    /\ TryEncode(CurPath, disk[CurPath]).ok
    /\ opened' = Append(opened, CurPath)
    /\ img_srcs' = <<TryEncode(CurPath, disk[CurPath]).src>> \o img_srcs
    /\ pi' = pi + 1
    /\ UNCHANGED <<disk, marker_image_paths, pc, ni, image_map, log,
                   mi, markers, saveAttempts, saved>>

\* try branch running to its end
FileEncoded ==
    /\ InLoop
    /\ Exists(CurPath)
    /\ TryEncode(CurPath, disk[CurPath]).ok
    /\ opened' = Append(opened, CurPath)
    /\ img_srcs' = Append(img_srcs, TryEncode(CurPath, disk[CurPath]).src)
    /\ pi' = pi + 1
    /\ UNCHANGED <<disk, marker_image_paths, pc, ni, image_map, log,
                   mi, markers, saveAttempts, saved>>

\* print(f"Failed to process {img_path}: {e}")
FailureLine(img_path, e) == [kind |-> "failed", path |-> img_path, error |-> e]

\* variant: no except clause, the exception leaves build_map
FileFailedPropagates ==
    /\ InLoop
    /\ disk[CurPath].exists
    /\ ~TryEncode(CurPath, disk[CurPath]).ok
    /\ opened' = Append(opened, CurPath)
    /\ pc' = "raised"
    /\ UNCHANGED <<disk, marker_image_paths, ni, pi, img_srcs, image_map, log,
                   mi, markers, saveAttempts, saved>>

\* try branch raising: the except clause prints and appends the placeholder
FileFailed ==
    /\ InLoop
    /\ Exists(CurPath)
    /\ ~TryEncode(CurPath, disk[CurPath]).ok
    /\ opened' = Append(opened, CurPath)
    /\ log' = Append(log, FailureLine(CurPath, TryEncode(CurPath, disk[CurPath]).err))
    /\ img_srcs' = Append(img_srcs, Placeholder)
    /\ pi' = pi + 1
    /\ UNCHANGED <<disk, marker_image_paths, pc, ni, image_map,
                   mi, markers, saveAttempts, saved>>

\* image_map[name] = img_srcs, and the outer loop moves on (img_srcs = [])
NameDone ==
    /\ AtNameEnd
    /\ image_map' = DictSet(image_map, marker_image_paths[ni].name, img_srcs)
    /\ img_srcs' = <<>>
    /\ ni' = ni + 1
    /\ pi' = 1
    /\ UNCHANGED <<disk, marker_image_paths, pc, opened, log,
                   mi, markers, saveAttempts, saved>>

\* return image_map
LoadReturn ==
    /\ AtLoadEnd
    /\ pc' = "markers"
    /\ mi' = 1
    /\ UNCHANGED <<disk, marker_image_paths, ni, pi, img_srcs, image_map,
                   opened, log, markers, saveAttempts, saved>>

----------------------------------------------------------------------------
(* build_map: the popups *)

Text(tag, text) == [tag |-> tag, text |-> text]
Br == [tag |-> "br"]

\* f'<img src="{src}" width="280" alt="{name} image">'
Img(src, name) == [tag |-> "img", src |-> src, width |-> 280, alt |-> <<name, " image">>]

RECURSIVE Join(_, _)
\* sep.join(parts), each part a list of elements
Join(sep, parts) ==
    IF Len(parts) = 0 THEN <<>>
    ELSE IF Len(parts) = 1 THEN parts[1]
    ELSE parts[1] \o <<sep>> \o Join(sep, Tail(parts))

\* f"<b>{name}</b><br><small>{description}</small>"
PlainHtml(name, description) ==
    << Text("b", name), Br, Text("small", description) >>

\* variant: only the first image is shown
ImageHtmlFirstOnly(name, description, srcs) ==
    PlainHtml(name, description) \o <<Br>>
        \o (IF Len(srcs) = 0 THEN <<>> ELSE << Img(srcs[1], name) >>)

\* f"<b>{name}</b><br><small>{description}</small><br>" + "<br>".join(<img ...>)
ImageHtml(name, description, srcs) ==
    PlainHtml(name, description) \o <<Br>>
        \o Join(Br, [i \in 1..Len(srcs) |-> << Img(srcs[i], name) >>])

\* folium.Popup(folium.IFrame(html, width=300, height=...), max_width=350)
Popup(html, height) ==
    [html |-> html, width |-> 300, height |-> height, max_width |-> 350]

InMarkers ==
    /\ pc = "markers"
    /\ mi <= Len(poi_markers)

\* if name in image_map
MarkerWithImages ==
    /\ InMarkers
    /\ Has(image_map, poi_markers[mi].name)
    /\ markers' = Append(markers,
          [name |-> poi_markers[mi].name,
           popup |-> Popup(ImageHtml(poi_markers[mi].name,
                                     poi_markers[mi].description,
                                     Entry(image_map, poi_markers[mi].name).srcs),
                           300)])
    /\ mi' = mi + 1
    /\ UNCHANGED <<disk, marker_image_paths, pc, ni, pi, img_srcs, image_map,
                   opened, log, saveAttempts, saved>>

\* else
MarkerPlain ==
    /\ InMarkers
    /\ ~Has(image_map, poi_markers[mi].name)
    /\ markers' = Append(markers,
          [name |-> poi_markers[mi].name,
           popup |-> Popup(PlainHtml(poi_markers[mi].name,
                                     poi_markers[mi].description), 200)])
    /\ mi' = mi + 1
    /\ UNCHANGED <<disk, marker_image_paths, pc, ni, pi, img_srcs, image_map,
                   opened, log, saveAttempts, saved>>

----------------------------------------------------------------------------
(* build_map: controls and m.save(out_path); the script's last line *)

AtSave ==
    /\ pc = "markers"
    /\ mi > Len(poi_markers)

\* m.save(out_path) writes the document; return out_path
SaveWritten ==
    /\ AtSave
    /\ saveAttempts' = saveAttempts + 1
    /\ saved' = markers
    /\ pc' = "returned"
    /\ UNCHANGED <<disk, marker_image_paths, ni, pi, img_srcs, image_map,
                   opened, log, mi, markers>>

\* variant: a failed write is tried again
SaveRaisesRetried ==
    /\ AtSave
    /\ saveAttempts' = saveAttempts + 1
    /\ UNCHANGED <<disk, marker_image_paths, pc, ni, pi, img_srcs, image_map,
                   opened, log, mi, markers, saved>>

\* m.save(out_path) raises (output path unwritable); nothing catches it
SaveRaises ==
    /\ AtSave
    /\ saveAttempts' = saveAttempts + 1
    /\ pc' = "raised"
    /\ UNCHANGED <<disk, marker_image_paths, ni, pi, img_srcs, image_map,
                   opened, log, mi, markers, saved>>

\* print(f"Map saved to: {out}")
MainPrint ==
    /\ pc = "returned"
    /\ log' = Append(log, [kind |-> "saved"])
    /\ pc' = "done"
    /\ UNCHANGED <<disk, marker_image_paths, ni, pi, img_srcs, image_map,
                   opened, mi, markers, saveAttempts, saved>>

Next ==
    \/ BuildStart
    \/ FileMissing
    \/ FileEncoded
    \/ FileFailed
    \/ NameDone
    \/ LoadReturn
    \/ MarkerWithImages
    \/ MarkerPlain
    \/ SaveWritten
    \/ SaveRaises
    \/ MainPrint

Spec == Init /\ [][Next]_vars

----------------------------------------------------------------------------
(* The size sweep: the first image of the run is a sound file of any size *)

Dims ==
    { d \in 1..MaxDim :
        d <= 3 \/ d % DimStep = 0 \/ (d >= THUMB - 1 /\ d <= THUMB + 1) }

ProbePaths == {pA, pC}

InitSizes ==
    /\ \E p \in ProbePaths, w \in Dims, h \in Dims, q \in Paths :
          /\ disk = [Disk EXCEPT ![p] = [@ EXCEPT !.w = w, !.h = h]]
          /\ marker_image_paths = << [name |-> "A", paths |-> <<p, q>>] >>
    /\ Blank

SpecSizes == InitSizes /\ [][Next]_vars

----------------------------------------------------------------------------
(* Vocabulary of the properties *)

\* load_images_to_map has returned
Loaded == pc \in {"markers", "returned", "raised", "done"}

\* every position (item, index) of the input dict
Positions ==
    { <<n, i>> \in (1..Len(marker_image_paths)) \X (1..MaxImages + 1) :
        i <= Len(marker_image_paths[n].paths) }

PathAt(pos) == marker_image_paths[pos[1]].paths[pos[2]]

HasOut(pos) ==
    /\ Has(image_map, marker_image_paths[pos[1]].name)
    /\ pos[2] <= Len(Entry(image_map, marker_image_paths[pos[1]].name).srcs)

OutAt(pos) == Entry(image_map, marker_image_paths[pos[1]].name).srcs[pos[2]]

Missing(p) == ~disk[p].exists
Unprocessable(p) == disk[p].exists /\ ~TryEncode(p, disk[p]).ok
Sound(p) == disk[p].exists /\ TryEncode(p, disk[p]).ok

IsDataURI(src) == src # Placeholder /\ src.scheme = "data:image/" /\ src.sep = ";base64,"

\* pos comes before qos in processing order
Before(pos, qos) == pos[1] < qos[1] \/ (pos[1] = qos[1] /\ pos[2] < qos[2])

----------------------------------------------------------------------------
\* C1: when load_images_to_map has returned, the returned mapping has
\* exactly the key set of the input mapping, and each name's output list is
\* as long as its input path list, for every mix of existing, missing and
\* unprocessable files.
C1_SameKeysSameLengths ==
    Loaded =>
        /\ Keys(image_map) = Keys(marker_image_paths)
        /\ Len(image_map) = Len(marker_image_paths)
        /\ \A n \in 1..Len(marker_image_paths) :
              /\ Has(image_map, marker_image_paths[n].name)
              /\ Len(Entry(image_map, marker_image_paths[n].name).srcs)
                    = Len(marker_image_paths[n].paths)

\* a returned call whose input mixes a missing, an unprocessable and a sound file
C1_Witness ==
    /\ Loaded
    /\ \E n \in 1..Len(marker_image_paths) :
          /\ Len(marker_image_paths[n].paths) = 3
          /\ \E i, j, k \in 1..3 :
                /\ Missing(marker_image_paths[n].paths[i])
                /\ Unprocessable(marker_image_paths[n].paths[j])
                /\ Sound(marker_image_paths[n].paths[k])

\* C2: a path whose file does not exist yields exactly the placeholder at
\* its position, and no file that does not exist is ever handed to
\* Image.open.
C2_MissingIsPlaceholderUnopened ==
    /\ \A k \in 1..Len(opened) : disk[opened[k]].exists
    /\ Loaded =>
          \A pos \in Positions :
              Missing(PathAt(pos)) => HasOut(pos) /\ OutAt(pos) = Placeholder

\* a returned call that met a missing file and opened another file
C2_Witness ==
    /\ Loaded
    /\ \E pos \in Positions : Missing(PathAt(pos))
    /\ Len(opened) > 0

\* C3: the output list of a name holds at index i the result for the i-th
\* input path: the data URI of that file when it is sound, the placeholder
\* otherwise.
C3_OrderPreserved ==
    Loaded =>
        \A pos \in Positions :
            /\ HasOut(pos)
            /\ IF Sound(PathAt(pos))
               THEN /\ IsDataURI(OutAt(pos))
                    /\ OutAt(pos).payload.b64.pixels = PathAt(pos)
               ELSE OutAt(pos) = Placeholder

\* paths [A, B, C] with B missing gave [encoded(A), placeholder, encoded(C)]
C3_Witness ==
    /\ Loaded
    /\ \E n \in 1..Len(marker_image_paths) :
          /\ marker_image_paths[n].paths = <<pA, pD, pC>>
          /\ Has(image_map, marker_image_paths[n].name)
          /\ LET srcs == Entry(image_map, marker_image_paths[n].name).srcs
             IN  /\ Len(srcs) = 3
                 /\ IsDataURI(srcs[1]) /\ srcs[1].payload.b64.pixels = pA
                 /\ srcs[2] = Placeholder
                 /\ IsDataURI(srcs[3]) /\ srcs[3].payload.b64.pixels = pC

\* C4: an existing file that fails to open, resize or encode gets the
\* placeholder and the loop goes on: the step that meets such a file stays
\* in load_images_to_map and advances to the next path, and in the returned
\* mapping every later file, of the same name and of later names, has its
\* own result.
C4_FailureIsolatedInv ==
    Loaded =>
        \A pos \in Positions :
            Unprocessable(PathAt(pos)) =>
                /\ HasOut(pos) /\ OutAt(pos) = Placeholder
                /\ \A qos \in Positions :
                      Before(pos, qos) =>
                          /\ HasOut(qos)
                          /\ Sound(PathAt(qos)) => IsDataURI(OutAt(qos))

C4_FailureIsolated ==
    /\ []C4_FailureIsolatedInv
    /\ [][(InLoop /\ Unprocessable(CurPath)) =>
             (pc' = "load" /\ ni' = ni /\ pi' = pi + 1)]_vars

\* a returned call where a failing file is followed by a sound file of the
\* same name and by a sound file of a later name
C4_Witness ==
    /\ Loaded
    /\ Len(marker_image_paths) = 2
    /\ Len(marker_image_paths[1].paths) = 2
    /\ Len(marker_image_paths[2].paths) = 1
    /\ Unprocessable(marker_image_paths[1].paths[1])
    /\ Sound(marker_image_paths[1].paths[2])
    /\ Sound(marker_image_paths[2].paths[1])
    /\ HasOut(<<1, 2>>) /\ IsDataURI(OutAt(<<1, 2>>))
    /\ HasOut(<<2, 1>>) /\ IsDataURI(OutAt(<<2, 1>>))

----------------------------------------------------------------------------
(* build_map's popups *)

\* the marker build_map placed for row i of poi_markers (after the centre one)
Placed(i) == i + 1 <= Len(markers)
PopupOf(i) == markers[i + 1].popup

IsImg(el) == el.tag = "img"
ImgEls(html) == SelectSeq(html, IsImg)
ImgSrcs(html) == [k \in 1..Len(ImgEls(html)) |-> ImgEls(html)[k].src]
HasEl(html, el) == \E k \in 1..Len(html) : html[k] = el

\* the name has no image: it is no key of the input, or its list is empty
ZeroImages(name) ==
    \/ ~Has(marker_image_paths, name)
    \/ Entry(marker_image_paths, name).paths = <<>>

\* C5 as stated: a point of interest with zero associated images is absent
\* from the returned mapping and gets the plain-text popup.
C5_ZeroImagesAbsent ==
    Loaded =>
        \A i \in 1..Len(poi_markers) :
            ZeroImages(poi_markers[i].name) =>
                /\ ~Has(image_map, poi_markers[i].name)
                /\ Placed(i) =>
                      PopupOf(i).html = PlainHtml(poi_markers[i].name,
                                                  poi_markers[i].description)

\* C5 as the code has it: a point of interest whose name is no key of the
\* image-path mapping is absent from the returned mapping and gets the
\* plain-text popup (no image element); a name that is a key with an empty
\* list is present in the returned mapping with an empty list and gets the
\* image-branch popup, which then holds no image element.
C5_AbsentKeyAbsent ==
    Loaded =>
        \A i \in 1..Len(poi_markers) :
            LET name == poi_markers[i].name
            IN  /\ ~Has(marker_image_paths, name) =>
                      /\ ~Has(image_map, name)
                      /\ Placed(i) =>
                            /\ Len(ImgEls(PopupOf(i).html)) = 0
                            /\ PopupOf(i).html[Len(PopupOf(i).html)]
                                  = Text("small", poi_markers[i].description)
                            /\ PopupOf(i).height = 200
                /\ (Has(marker_image_paths, name)
                      /\ Entry(marker_image_paths, name).paths = <<>>) =>
                      /\ Has(image_map, name)
                      /\ Entry(image_map, name).srcs = <<>>
                      /\ Placed(i) =>
                            /\ Len(ImgEls(PopupOf(i).html)) = 0
                            /\ PopupOf(i).html[Len(PopupOf(i).html)] = Br
                            /\ PopupOf(i).height = 300

\* a finished run where "A" is a key with an empty list and "B" is no key
C5_Witness ==
    /\ pc = "done"
    /\ Has(marker_image_paths, "A")
    /\ Entry(marker_image_paths, "A").paths = <<>>
    /\ ~Has(marker_image_paths, "B")
    /\ PopupOf(1).height = 300
    /\ PopupOf(2).height = 200

----------------------------------------------------------------------------
\* the extensions .jpg and .jpeg in every mix of upper and lower case
IsJpegExt(s) ==
    \/ /\ Len(s) = 4
       /\ s[1] = "." /\ s[2] \in {"j", "J"} /\ s[3] \in {"p", "P"}
       /\ s[4] \in {"g", "G"}
    \/ /\ Len(s) = 5
       /\ s[1] = "." /\ s[2] \in {"j", "J"} /\ s[3] \in {"p", "P"}
       /\ s[4] \in {"e", "E"} /\ s[5] \in {"g", "G"}

\* C6: every entry produced from a successfully processed file is
\* data:image/jpeg;base64,<payload> when the path's extension is .jpg or
\* .jpeg in any case, and data:image/png;base64,<payload> otherwise,
\* whatever format the file's content has.
C6_FormatFromExtension ==
    Loaded =>
        \A pos \in Positions :
            (HasOut(pos) /\ OutAt(pos) # Placeholder) =>
                /\ OutAt(pos).scheme = "data:image/"
                /\ OutAt(pos).sep = ";base64,"
                /\ OutAt(pos).mime =
                      IF IsJpegExt(Suffix(PathAt(pos)))
                      THEN <<"j", "p", "e", "g">> ELSE <<"p", "n", "g">>

\* b.JPEG was encoded as jpeg, and c.png, whose content is a JPEG, as png
C6_Witness ==
    /\ Loaded
    /\ \E pos, qos \in Positions :
          /\ PathAt(pos) = pB /\ HasOut(pos) /\ IsDataURI(OutAt(pos))
          /\ OutAt(pos).mime = <<"j", "p", "e", "g">>
          /\ PathAt(qos) = pC /\ HasOut(qos) /\ IsDataURI(OutAt(qos))
          /\ OutAt(qos).mime = <<"p", "n", "g">>
          /\ disk[pC].format = "JPEG"

----------------------------------------------------------------------------
RECURSIVE AllPaths(_)
\* the paths of the items from item n on, in processing order
AllPaths(n) ==
    IF n > Len(marker_image_paths) THEN <<>>
    ELSE marker_image_paths[n].paths \o AllPaths(n + 1)

IsFailureLine(line) == line.kind = "failed"

\* C7: the diagnostics written by load_images_to_map are, in processing
\* order, one line for each file that exists but fails to process, naming
\* that file and its error; missing files and encoded files give no line.
C7_DiagnosticsExactlyForFailures ==
    Loaded =>
        LET lines == SelectSeq(log, IsFailureLine)
            failing == SelectSeq(AllPaths(1), Unprocessable)
        IN  /\ Len(lines) = Len(failing)
            /\ \A k \in 1..Len(lines) :
                  /\ lines[k].path = failing[k]
                  /\ lines[k].error \in {"cannot identify image file",
                                         "image file is truncated",
                                         "cannot write mode as JPEG"}

\* a returned call that met a missing, a failing and a sound file and wrote
\* one diagnostic
C7_Witness ==
    /\ Loaded
    /\ \E pos, qos, ros \in Positions :
          /\ Missing(PathAt(pos))
          /\ Unprocessable(PathAt(qos))
          /\ Sound(PathAt(ros))
    /\ Len(SelectSeq(log, IsFailureLine)) = 1

----------------------------------------------------------------------------
\* C8: the popup of a point of interest whose name is no key of image_map
\* holds its name and its description as text and no image element; the
\* popup of a point whose name is a key holds one image element per entry
\* of its list, in list order.
C8_PopupContent ==
    \A i \in 1..Len(poi_markers) :
        Placed(i) =>
            LET html == PopupOf(i).html
                name == poi_markers[i].name
            IN  /\ HasEl(html, Text("b", name))
                /\ HasEl(html, Text("small", poi_markers[i].description))
                /\ IF Has(image_map, name)
                   THEN ImgSrcs(html) = Entry(image_map, name).srcs
                   ELSE \A k \in 1..Len(html) :
                           html[k] \in {Text("b", name), Br,
                                        Text("small", poi_markers[i].description)}

\* all markers placed: one with three images, one with plain text
C8_Witness ==
    /\ Len(markers) = Len(poi_markers) + 1
    /\ \E i, j \in 1..Len(poi_markers) :
          /\ Has(image_map, poi_markers[i].name)
          /\ Len(ImgEls(PopupOf(i).html)) = 3
          /\ ImgEls(PopupOf(i).html)[1].src # ImgEls(PopupOf(i).html)[3].src
          /\ ~Has(image_map, poi_markers[j].name)
          /\ Len(ImgEls(PopupOf(j).html)) = 0

----------------------------------------------------------------------------
\* the encoded size nw x nh keeps the aspect of w x h up to integer
\* rounding: one side is the bound and the other is within one pixel of
\* the exact proportional value
AspectKept(w, h, nw, nh) ==
    \/ nh = THUMB /\ Abs(nw * h - THUMB * w) < h
    \/ nw = THUMB /\ Abs(nh * w - THUMB * h) < w

\* C9: an encoded image is at most 400 pixels wide and high; an original
\* of at most 400 x 400 keeps its size, and a larger one keeps its aspect
\* ratio up to integer rounding.
C9_ThumbnailBounds ==
    \A pos \in Positions :
        (HasOut(pos) /\ OutAt(pos) # Placeholder) =>
            LET w == disk[PathAt(pos)].w
                h == disk[PathAt(pos)].h
                nw == OutAt(pos).payload.b64.w
                nh == OutAt(pos).payload.b64.h
            IN  /\ nw >= 1 /\ nw <= 400
                /\ nh >= 1 /\ nh <= 400
                /\ IF w <= 400 /\ h <= 400
                   THEN nw = w /\ nh = h
                   ELSE AspectKept(w, h, nw, nh)

\* images that were shrunk in width, shrunk in height, and left alone
C9_Witness ==
    /\ Loaded
    /\ \E pos \in Positions :
          /\ HasOut(pos) /\ IsDataURI(OutAt(pos))
          /\ disk[PathAt(pos)].w > 2 * THUMB
          /\ disk[PathAt(pos)].h > THUMB
          /\ disk[PathAt(pos)].h < disk[PathAt(pos)].w
          /\ OutAt(pos).payload.b64.w = THUMB
          /\ OutAt(pos).payload.b64.h < THUMB
    /\ \E pos \in Positions :
          /\ HasOut(pos) /\ IsDataURI(OutAt(pos))
          /\ disk[PathAt(pos)].w < THUMB
          /\ OutAt(pos).payload.b64.w = disk[PathAt(pos)].w

----------------------------------------------------------------------------
Ended == pc \in {"done", "raised"}

\* all images are processed and all markers placed
AllProcessed ==
    /\ Loaded
    /\ \A pos \in Positions : HasOut(pos)
    /\ Len(image_map) = Len(marker_image_paths)
    /\ Len(markers) = Len(poi_markers) + 1

C10_EndStates ==
    /\ saveAttempts <= 1
    /\ saveAttempts = 1 => AllProcessed
    /\ pc \in {"returned", "done"} => (saveAttempts = 1 /\ saved = markers)
    /\ pc = "raised" => (saveAttempts = 1 /\ saved = <<>>)
    /\ Ended => saveAttempts = 1

\* the guard of one of the steps of the run holds
CanStep ==
    \/ pc = "start"
    \/ InLoop /\ (Missing(CurPath) \/ Sound(CurPath) \/ Unprocessable(CurPath))
    \/ AtNameEnd
    \/ AtLoadEnd
    \/ InMarkers
    \/ AtSave
    \/ pc = "returned"

RECURSIVE PathsFrom(_)
\* number of paths of the items from item n on
PathsFrom(n) ==
    IF n > Len(marker_image_paths) THEN 0
    ELSE Len(marker_image_paths[n].paths) + PathsFrom(n + 1)

\* an upper bound on the number of steps the run still takes
StepsLeft ==
    CASE pc = "start" ->
            PathsFrom(1) + Len(marker_image_paths) + Len(poi_markers) + 4
      [] pc = "load" ->
            (PathsFrom(ni) - (pi - 1)) + (Len(marker_image_paths) - ni + 1)
                + Len(poi_markers) + 3
      [] pc = "markers" -> (Len(poi_markers) - mi + 1) + 2
      [] pc = "returned" -> 1
      [] OTHER -> 0

\* C10: every run of build_map ends: either the file is written and the
\* path returned, or the write raises and the run ends with that error
\* after one attempt; the write is attempted once, only after every image
\* has been processed, and no missing or unprocessable image ends the run
\* before it.  Ending is stated by a variant: every step lowers StepsLeft,
\* which is 0 exactly in the two end states, and in every other state the
\* guard of one of the steps holds.
C10_RunEnds ==
    /\ [](C10_EndStates /\ StepsLeft >= 0 /\ (StepsLeft = 0 <=> Ended)
            /\ (~Ended => CanStep))
    /\ [][StepsLeft' < StepsLeft]_vars

\* a run that met a missing and an unprocessable image and ended in the
\* failed write
C10_Witness ==
    /\ pc = "raised"
    /\ \E pos, qos \in Positions :
          Missing(PathAt(pos)) /\ Unprocessable(PathAt(qos))
    /\ saveAttempts = 1

====
